---- MODULE Spec2Model ----
(***************************************************************************)
(* A model of the ArrangingBlueprint editor scripts:                       *)
(*   Content/Python/unreal_file_utils.py  (collector, mover, naming)       *)
(*   Content/Python/organize_assets.py    (run, the orchestrator)          *)
(* Paths and names are strings; the host editor (asset registry, levels,   *)
(* rename tool) is the environment.                                        *)
(***************************************************************************)
EXTENDS Integers, Sequences, FiniteSets, TLC

VARIABLES
    source_root,  \* the argument of run
    world,        \* what the editor holds: the Blueprints' properties, the locked assets
    registry,     \* the asset registry: package path -> class
    madeDirs,     \* directories make_directory was called for
    loaded,       \* levels load_level was called for
    saves,        \* number of save_dirty_packages calls
    collected,    \* the result of collect_all_from_folder (category -> paths)
    pc,           \* where run is
    cat,          \* index of the category being moved (1..8)
    pending,      \* paths of the current category not yet iterated
    moved,        \* run's counter
    calls,        \* the _move_asset calls made so far, in order
    result,       \* what run returned
    pure          \* the call of a naming function checked on its own

vars == <<source_root, world, registry, madeDirs, loaded, saves, collected,
          pc, cat, pending, moved, calls, result, pure>>

None == "<None>"

----------------------------------------------------------------------------
(* Python string operations *)

StartsWith(s, p) == Len(s) >= Len(p) /\ SubSeq(s, 1, Len(p)) = p

EndsWith(s, p) == Len(s) >= Len(p) /\ SubSeq(s, Len(s) - Len(p) + 1, Len(s)) = p

\* str.find: the lowest index (from 0) where sub occurs in s, or -1
Find(s, sub) ==
    LET hits == {k \in 0..(Len(s) - Len(sub)) : SubSeq(s, k + 1, k + Len(sub)) = sub}
    IN IF hits = {} THEN -1 ELSE CHOOSE k \in hits : \A j \in hits : k <= j

Contains(s, sub) == Find(s, sub) # -1

\* s.split('.')[0]
SplitDot0(s) ==
    LET k == Find(s, ".") IN IF k = -1 THEN s ELSE SubSeq(s, 1, k)

RECURSIVE LStrip(_)
LStrip(s) == IF Len(s) > 0 /\ SubSeq(s, 1, 1) = "/" THEN LStrip(SubSeq(s, 2, Len(s))) ELSE s

RECURSIVE RStrip(_)
RStrip(s) ==
    IF Len(s) > 0 /\ SubSeq(s, Len(s), Len(s)) = "/" THEN RStrip(SubSeq(s, 1, Len(s) - 1)) ELSE s

\* x.strip("/")
Strip(s) == RStrip(LStrip(s))

RECURSIVE Decimal(_)
Decimal(n) ==
    IF n < 10 THEN SubSeq("0123456789", n + 1, n + 1)
    ELSE Decimal(n \div 10) \o SubSeq("0123456789", (n % 10) + 1, (n % 10) + 1)

PadWidth == 3

RECURSIVE ZeroPad(_, _)
ZeroPad(s, w) == IF Len(s) >= w THEN s ELSE ZeroPad("0" \o s, w)

\* f"{i:03d}"
Format03d(i) == ZeroPad(Decimal(i), PadWidth)

----------------------------------------------------------------------------
(* unreal_file_utils.py: paths *)

_pkg_join(a, b) ==
    LET parts == SelectSeq(<<a, b>>, LAMBDA x : x # "")
        p == IF Len(parts) = 0 THEN ""
             ELSE IF Len(parts) = 1 THEN Strip(parts[1])
             ELSE Strip(parts[1]) \o "/" \o Strip(parts[2])
    IN IF StartsWith(p, "/") THEN p ELSE "/" \o p

is_engine(path) == StartsWith(path, "/Engine") \/ StartsWith(path, "/Script")

\* the last segment of a package path: AssetData.asset_name
BaseName(pkg) ==
    LET cuts == {k \in 1..Len(pkg) : SubSeq(pkg, k, k) = "/"}
    IN IF cuts = {} THEN pkg
       ELSE SubSeq(pkg, (CHOOSE k \in cuts : \A j \in cuts : j <= k) + 1, Len(pkg))

\* UObject.get_path_name() of an asset: package path, dot, asset name
PathName(pkg) == pkg \o "." \o BaseName(pkg)

----------------------------------------------------------------------------
(* the host editor's classes and registry *)

Classes == {"Blueprint", "World", "StaticMesh", "SkeletalMesh", "Material",
            "MaterialInstanceConstant", "Texture2D", "SoundWave",
            "ParticleSystem", "NiagaraSystem"}

\* the engine's class hierarchy, as far as the scripts test it
Supers(cls) ==
    CASE cls = "Texture2D" -> {"Texture2D", "Texture"}
      [] cls = "SoundWave" -> {"SoundWave", "SoundBase"}
      [] cls = "Material" -> {"Material", "MaterialInterface"}
      [] cls = "MaterialInstanceConstant" ->
             {"MaterialInstanceConstant", "MaterialInstance", "MaterialInterface"}
      [] OTHER -> {cls}

isinstance(cls, base) == base \in Supers(cls)

\* EditorAssetLibrary.does_asset_exist(path) against a registry (path -> class)
does_asset_exist(reg, path) == SplitDot0(path) \in DOMAIN reg

\* EditorAssetLibrary.find_asset_data(path): the package path found, or None
find_asset_data(reg, path) ==
    IF SplitDot0(path) \in DOMAIN reg THEN SplitDot0(path) ELSE None

----------------------------------------------------------------------------
(* unreal_file_utils.py: naming *)

\* one pass of the while loop of _unique_move_path, from (name, i)
UniqueMovePathStep(reg, dst_pkg_path, base, name, i) ==
    LET obj_path == dst_pkg_path \o "/" \o name
    IN IF ~does_asset_exist(reg, obj_path)
       THEN [done |-> TRUE, value |-> obj_path, name |-> name, i |-> i]
       ELSE [done |-> FALSE, value |-> None,
             name |-> base \o "_" \o Format03d(i + 1), i |-> i + 1]

RECURSIVE UniqueMovePathLoop(_, _, _, _, _)
UniqueMovePathLoop(reg, dst_pkg_path, base, name, i) ==
    LET s == UniqueMovePathStep(reg, dst_pkg_path, base, name, i)
    IN IF s.done THEN s.value
       ELSE UniqueMovePathLoop(reg, dst_pkg_path, base, s.name, s.i)

_unique_move_path(reg, dst_pkg_path, desired_name) ==
    UniqueMovePathLoop(reg, dst_pkg_path, desired_name, desired_name, 1)

\* UniqueNameStep forming the next name before it advances i
UniqueNameStepEarly(reg, dst_pkg_path, desired_name, name, i) ==
    IF ~does_asset_exist(reg, dst_pkg_path \o "/" \o name)
    THEN [done |-> TRUE, value |-> name, name |-> name, i |-> i]
    ELSE [done |-> FALSE, value |-> None,
          name |-> desired_name \o "_" \o Format03d(i), i |-> i + 1]

\* one pass of the while loop of _unique_name_in, from (name, i)
UniqueNameStep(reg, dst_pkg_path, desired_name, name, i) ==
    IF ~does_asset_exist(reg, dst_pkg_path \o "/" \o name)
    THEN [done |-> TRUE, value |-> name, name |-> name, i |-> i]
    ELSE [done |-> FALSE, value |-> None,
          name |-> desired_name \o "_" \o Format03d(i + 1), i |-> i + 1]

RECURSIVE UniqueNameLoop(_, _, _, _, _)
UniqueNameLoop(reg, dst_pkg_path, desired_name, name, i) ==
    LET s == UniqueNameStep(reg, dst_pkg_path, desired_name, name, i)
    IN IF s.done THEN s.value
       ELSE UniqueNameLoop(reg, dst_pkg_path, desired_name, s.name, s.i)

\* _unique_name_in without the existence test
_unique_name_in_unchecked(reg, dst_pkg_path, desired_name) == desired_name

_unique_name_in(reg, dst_pkg_path, desired_name) ==
    UniqueNameLoop(reg, dst_pkg_path, desired_name, desired_name, 1)

TypeKind(cls) ==
    IF isinstance(cls, "Material") THEN "M_"
    ELSE IF isinstance(cls, "MaterialInstanceConstant") THEN "MI_"
    ELSE IF isinstance(cls, "StaticMesh") THEN "SM_"
    ELSE IF isinstance(cls, "Texture") THEN "T_"
    ELSE ""

\* _get_asset_name taking the prefix as present when it occurs anywhere in the name
_get_asset_name_anywhere(cls, asset_name) ==
    LET kind == TypeKind(cls)
        index == Find(asset_name, kind)
    IN IF index = -1 THEN kind \o asset_name ELSE asset_name

_get_asset_name(cls, asset_name) ==
    LET kind == TypeKind(cls)
        index == Find(asset_name, kind)
    IN IF index # 0 THEN kind \o asset_name ELSE asset_name

----------------------------------------------------------------------------
(* unreal_file_utils.py: the mover *)

\* AssetTools.rename_assets([AssetRenameData(uobj, dst, new_name)]) reporting ok:
\* a successful rename leaves the asset at dst/new_name and nowhere else
rename_assets(reg, pkg, dst_pkg_path, new_name, ok) ==
    IF ~ok THEN reg
    ELSE LET target == dst_pkg_path \o "/" \o new_name
         IN [q \in (DOMAIN reg \ {pkg}) \cup {target} |->
                IF q = target THEN reg[pkg] ELSE reg[q]]

\* _move_asset returning the path whatever the rename tool answered
_move_asset_ignoring_ok(reg, obj_path, dst_pkg_path, ok) ==
    LET ad == find_asset_data(reg, obj_path)
    IN IF ad = None \/ is_engine(obj_path)
       THEN [ret |-> None, renamed |-> FALSE, new_name |-> None, clash |-> FALSE,
             ok |-> FALSE, reg |-> reg, saved |-> 0]
       ELSE LET new_obj_path == _unique_move_path(reg, dst_pkg_path, BaseName(ad))
                new_asset_name == _get_asset_name(reg[ad], BaseName(ad))
                new_name == _unique_name_in(reg, dst_pkg_path, new_asset_name)
            IN [ret |-> new_obj_path,
                renamed |-> TRUE,
                new_name |-> new_name,
                clash |-> does_asset_exist(reg, dst_pkg_path \o "/" \o new_name),
                ok |-> ok,
                reg |-> rename_assets(reg, ad, dst_pkg_path, new_name, ok),
                saved |-> 1]

\* _move_asset(obj_path, dst_pkg_path), the rename tool answering ok:
\* what it returns, what it asked of the rename tool, and the registry after
_move_asset(reg, obj_path, dst_pkg_path, ok) ==
    LET ad == find_asset_data(reg, obj_path)
    IN IF ad = None \/ is_engine(obj_path)
       THEN [ret |-> None, renamed |-> FALSE, new_name |-> None, clash |-> FALSE,
             ok |-> FALSE, reg |-> reg, saved |-> 0]
       ELSE LET new_obj_path == _unique_move_path(reg, dst_pkg_path, BaseName(ad))
                new_asset_name == _get_asset_name(reg[ad], BaseName(ad))
                new_name == _unique_name_in(reg, dst_pkg_path, new_asset_name)
            IN [ret |-> IF ~ok THEN None ELSE new_obj_path,
                renamed |-> TRUE,
                new_name |-> new_name,
                clash |-> does_asset_exist(reg, dst_pkg_path \o "/" \o new_name),
                ok |-> ok,
                reg |-> rename_assets(reg, ad, dst_pkg_path, new_name, ok),
                saved |-> 1]

----------------------------------------------------------------------------
(* The editor's content: objects, levels, actors, components *)

BP1 == "/Game/A/BP1"
BP2 == "/Game/A/Sub/BP2"
BP3 == "/Game/A/BP3"
L1 == "/Game/Maps/L1"
L2 == "/Game/Maps/L2"
L3 == "/Game/Worlds/L3"
LEngine == "/Engine/Maps/Entry"
LEngineSoft == "/Engine/Worlds/E"

ObjClass(obj) ==
    CASE obj \in {BP1, BP2, BP3} -> "Blueprint"
      [] obj \in {L1, L2, L3, LEngine, LEngineSoft} -> "World"
      [] obj \in {"/Game/Meshes/Rock", "/Engine/Meshes/Cube"} -> "StaticMesh"
      [] obj \in {"/Game/Chars/Hero", "/Engine/Chars/Dummy"} -> "SkeletalMesh"
      [] obj \in {"/Game/Mats/Rock", "/Engine/Mats/Def"} -> "Material"
      [] obj \in {"/Game/Mats/Skin"} -> "MaterialInstanceConstant"
      [] obj \in {"/Game/Tex/Rock", "/Game/Tex2/T_Rock", "/Engine/Tex/T_Def",
                  "/Script/Tex/T_S", "/Game/A/Textures/T_Rock"} -> "Texture2D"
      [] obj \in {"/Game/Snd/Boom", "/Engine/Snd/Click"} -> "SoundWave"
      [] obj \in {"/Game/FX/Fire", "/Engine/FX/Sparks"} -> "ParticleSystem"
      [] obj \in {"/Game/FX/Smoke", "/Script/FX/Dust"} -> "NiagaraSystem"
      [] OTHER -> "Object"

\* every asset the editor may hold
Objects ==
    {BP1, BP2, BP3, L1, L2, L3, LEngine, LEngineSoft,
     "/Game/Meshes/Rock", "/Engine/Meshes/Cube", "/Game/Chars/Hero", "/Engine/Chars/Dummy",
     "/Game/Mats/Rock", "/Engine/Mats/Def", "/Game/Mats/Skin",
     "/Game/Tex/Rock", "/Game/Tex2/T_Rock", "/Engine/Tex/T_Def", "/Script/Tex/T_S",
     "/Game/Snd/Boom", "/Engine/Snd/Click",
     "/Game/FX/Fire", "/Engine/FX/Sparks", "/Game/FX/Smoke", "/Script/FX/Dust"}

\* LevelEditorSubsystem.load_level(level_path)
load_level(level) == level # L2

\* EditorActorSubsystem.get_all_level_actors() of the level loaded
LevelActors(level) ==
    CASE level = L1 -> {"Rocks", "Cube", "Faulty", "Speaker"}
      [] level = L2 -> {"Rocks", "Effects"}
      [] level = L3 -> {"Hero", "Effects"}
      [] OTHER -> {}

Comp(kind, asset, legacy) == [kind |-> kind, asset |-> asset, legacy |-> legacy]

\* whether actor.get_components_by_class(ActorComponent) throws
ComponentsRaise(actor) == actor = "Faulty"

\* actor.get_components_by_class(ActorComponent)
ActorComponents(actor) ==
    CASE actor = "Rocks" -> {Comp("StaticMeshComponent", "/Game/Meshes/Rock", None),
                             Comp("StaticMeshComponent", None, None),
                             Comp("SceneComponent", None, None)}
      [] actor = "Cube" -> {Comp("StaticMeshComponent", "/Engine/Meshes/Cube", None)}
      [] actor = "Speaker" -> {Comp("AudioComponent", "/Game/Snd/Boom", None),
                               Comp("AudioComponent", "/Engine/Snd/Click", None)}
      [] actor = "Hero" -> {Comp("SkeletalMeshComponent", None, "/Game/Chars/Hero"),
                            Comp("SkeletalMeshComponent", "/Engine/Chars/Dummy", None)}
      [] actor = "Effects" -> {Comp("ParticleSystemComponent", "/Game/FX/Fire", None),
                               Comp("ParticleSystemComponent", "/Engine/FX/Sparks", None),
                               Comp("NiagaraComponent", "/Game/FX/Smoke", None),
                               Comp("NiagaraComponent", "/Script/FX/Dust", None)}
      [] OTHER -> {}

\* the material_interface of each slot of a mesh (None: an empty slot)
MeshSlots(mesh) ==
    CASE mesh = "/Game/Meshes/Rock" -> {"/Game/Mats/Rock", "/Engine/Mats/Def", None}
      [] mesh = "/Engine/Meshes/Cube" -> {"/Game/Mats/Rock"}
      [] mesh = "/Game/Chars/Hero" -> {"/Game/Mats/Skin", "/Engine/Mats/Def"}
      [] mesh = "/Engine/Chars/Dummy" -> {"/Game/Mats/Skin"}
      [] OTHER -> {}

\* whether MaterialEditingLibrary.get_used_textures(material) throws
UsedTexturesRaise(mat) == mat = "/Game/Mats/Skin"

\* MaterialEditingLibrary.get_used_textures(material)
get_used_textures(mat) ==
    CASE mat = "/Game/Mats/Rock" -> {"/Game/Tex/Rock", "/Engine/Tex/T_Def"}
      [] OTHER -> {}

\* the parameter_value of each of a material instance's texture_parameter_values
texture_parameter_values(mat) ==
    CASE mat = "/Game/Mats/Skin" -> {"/Game/Tex2/T_Rock", "/Script/Tex/T_S", None}
      [] OTHER -> {}

----------------------------------------------------------------------------
(* unreal_file_utils.py: the collector *)

DepKeys == {"static_meshes", "skeletal_meshes", "materials", "textures",
            "sounds", "animations", "particles"}

NoDeps == [k \in DepKeys |-> {}]

Merge(a, b) == [k \in DepKeys |-> a[k] \cup b[k]]

RECURSIVE MergeAll(_)
MergeAll(S) ==
    IF S = {} THEN NoDeps
    ELSE LET x == CHOOSE x \in S : TRUE IN Merge(x, MergeAll(S \ {x}))

\* _collect_textures without the engine-path test
_collect_textures_unfiltered(mat) ==
    IF ~UsedTexturesRaise(mat)
    THEN {t \in get_used_textures(mat) : isinstance(ObjClass(t), "Texture")}
    ELSE IF isinstance(ObjClass(mat), "MaterialInstance")
    THEN {t \in texture_parameter_values(mat) : isinstance(ObjClass(t), "Texture")}
    ELSE {}

_collect_textures(mat) ==
    IF ~UsedTexturesRaise(mat)
    THEN {t \in get_used_textures(mat) :
            isinstance(ObjClass(t), "Texture") /\ ~is_engine(PathName(t))}
    ELSE IF isinstance(ObjClass(mat), "MaterialInstance")
    THEN {t \in texture_parameter_values(mat) :
            isinstance(ObjClass(t), "Texture") /\ ~is_engine(PathName(t))}
    ELSE {}

_static_mesh_materials(sm) ==
    {m \in MeshSlots(sm) : m # None /\ ~is_engine(PathName(m))}

_skeletal_mesh_materials(skm) ==
    {m \in MeshSlots(skm) : m # None /\ ~is_engine(PathName(m))}

_collect_from_static_mesh(sm) ==
    IF is_engine(PathName(sm)) THEN NoDeps
    ELSE LET mats == _static_mesh_materials(sm)
         IN [NoDeps EXCEPT !["static_meshes"] = {sm},
                           !["materials"] = mats,
                           !["textures"] = UNION {_collect_textures(m) : m \in mats}]

_collect_from_skeletal_mesh(skm) ==
    IF is_engine(PathName(skm)) THEN NoDeps
    ELSE LET mats == _skeletal_mesh_materials(skm)
         IN [NoDeps EXCEPT !["skeletal_meshes"] = {skm},
                           !["materials"] = mats,
                           !["textures"] = UNION {_collect_textures(m) : m \in mats}]

\* what one component of an actor adds to the result
CollectFromComponent(comp) ==
    IF comp.kind = "StaticMeshComponent"
    THEN IF comp.asset # None /\ isinstance(ObjClass(comp.asset), "StaticMesh")
         THEN _collect_from_static_mesh(comp.asset) ELSE NoDeps
    ELSE IF comp.kind = "SkeletalMeshComponent"
    THEN LET skm == IF comp.asset # None THEN comp.asset ELSE comp.legacy
         IN IF skm # None /\ isinstance(ObjClass(skm), "SkeletalMesh")
            THEN _collect_from_skeletal_mesh(skm) ELSE NoDeps
    ELSE IF comp.kind = "AudioComponent"
    THEN IF comp.asset # None /\ isinstance(ObjClass(comp.asset), "SoundBase")
            /\ ~is_engine(PathName(comp.asset))
         THEN [NoDeps EXCEPT !["sounds"] = {comp.asset}] ELSE NoDeps
    ELSE IF comp.kind = "ParticleSystemComponent"
    THEN IF comp.asset # None /\ ~is_engine(PathName(comp.asset))
         THEN [NoDeps EXCEPT !["particles"] = {comp.asset}] ELSE NoDeps
    ELSE IF comp.kind = "NiagaraComponent"
    THEN IF comp.asset # None /\ ~is_engine(PathName(comp.asset))
         THEN [NoDeps EXCEPT !["particles"] = {comp.asset}] ELSE NoDeps
    ELSE NoDeps

_collect_from_actor(actor) ==
    IF ComponentsRaise(actor) THEN NoDeps
    ELSE MergeAll({CollectFromComponent(c) : c \in ActorComponents(actor)})

_collect_level_dependencies(level_path) ==
    IF ~load_level(level_path) THEN NoDeps
    ELSE MergeAll({_collect_from_actor(a) : a \in LevelActors(level_path)})

\* what one property of the default object adds to the levels found
LevelsOfProperty(reg, prop) ==
    IF StartsWith(prop.name, "_") THEN {}
    ELSE IF prop.kind = "world"
    THEN LET level_path == SplitDot0(prop.target)
         IN IF ~is_engine(level_path) THEN {level_path} ELSE {}
    ELSE IF prop.kind = "soft"
    THEN LET path_str == prop.target
         IN IF (path_str # "" /\ Contains(path_str, "World")) \/ EndsWith(path_str, "_C")
            THEN LET ad == find_asset_data(reg, SplitDot0(path_str))
                 IN IF ad # None /\ isinstance(reg[ad], "World")
                       /\ ~is_engine(SplitDot0(path_str))
                    THEN {SplitDot0(path_str)} ELSE {}
            ELSE {}
    ELSE {}

\* bp: [generated_class, cdo : BOOLEAN, props : the default object's properties]
_find_levels_in_blueprint(reg, bp) ==
    IF ~bp.generated_class THEN {}
    ELSE IF ~bp.cdo THEN {}
    ELSE UNION {LevelsOfProperty(reg, p) : p \in bp.props}

\* whether package path p lies under folder root (ARFilter, recursive_paths)
Under(p, root) == StartsWith(p, RStrip(root) \o "/")

\* _list_blueprints without the folder filter
_list_blueprints_anywhere(reg, root) ==
    {p \in DOMAIN reg : reg[p] = "Blueprint"}

_list_blueprints(reg, root) ==
    {p \in DOMAIN reg : reg[p] = "Blueprint" /\ Under(p, root)}

Categories == DepKeys \cup {"blueprints", "levels"}

\* the result, and the levels load_level was called for
collect_all_from_folder(reg, w, root) ==
    LET bps == {bp \in _list_blueprints(reg, root) :
                  isinstance(reg[bp], "Blueprint") /\ ~is_engine(PathName(bp))}
        levels == UNION {_find_levels_in_blueprint(reg, w[bp]) : bp \in bps}
        deps == MergeAll({_collect_level_dependencies(l) : l \in levels})
    IN [k \in Categories |->
          IF k = "blueprints" THEN {PathName(bp) : bp \in bps}
          ELSE IF k = "levels" THEN levels
          ELSE IF k = "animations" THEN {}
          ELSE {PathName(o) : o \in deps[k]}]

----------------------------------------------------------------------------
(* organize_assets.py: run(source_root) *)

MaxProps == 2
MaxBlueprints == 2

Roots == {"/Game/A", "/Game/Empty", "/Engine/A"}

Prop(name, kind, target) == [name |-> name, kind |-> kind, target |-> target]

\* references to levels the first Blueprint's default object may carry
PropOptions ==
    {Prop("Arena", "world", PathName(L1)),
     Prop("Lobby", "soft", PathName(L2)),
     Prop("Open", "soft", PathName(L3)),
     Prop("Entry", "world", PathName(LEngine))}

\* the properties of the second Blueprint's default object
FixedProps ==
    {Prop("Lobby", "world", PathName(L2)),
     Prop("EngineSoft", "soft", PathName(LEngineSoft)),
     Prop("Pawn", "soft", PathName(BP2) \o "_C"),
     Prop("_hidden", "world", PathName(L3)),
     Prop("Health", "other", "100")}

Blueprint(props) == [generated_class |-> TRUE, cdo |-> TRUE, props |-> props]

\* the Blueprints of the folder, in the order they are added to it
FolderBlueprints == <<BP1, BP2, BP3>>

\* assets that may be absent from the registry while a level still uses them
MissingOptions == {None, "/Game/Tex/Rock"}

\* assets that may already sit in a destination folder
PreExisting == {{}, {"/Game/A/Textures/T_Rock"}}

\* assets whose rename the rename tool may refuse
LockOptions == SUBSET {"/Game/Mats/Rock", BP1}

\* the category order with materials moved before textures
CatOrderMaterialsFirst ==
    <<"materials", "textures", "static_meshes", "skeletal_meshes",
      "sounds", "particles", "levels", "blueprints">>

CatOrder == <<"textures", "materials", "static_meshes", "skeletal_meshes",
              "sounds", "particles", "levels", "blueprints">>

\* the destination folder run passes for a category
DstOf(root, c) ==
    CASE c = "textures" -> _pkg_join(root, "Textures")
      [] c = "materials" -> _pkg_join(root, "Materials")
      [] c \in {"static_meshes", "skeletal_meshes"} -> _pkg_join(root, "Meshes")
      [] c = "sounds" -> _pkg_join(root, "Sounds")
      [] c = "particles" -> _pkg_join(root, "Particles")
      [] c \in {"levels", "blueprints"} -> _pkg_join(root, "Blueprints")

DstFolders(root) ==
    {_pkg_join(root, n) : n \in {"Blueprints", "Meshes", "Materials", "Textures",
                                 "Sounds", "Animations", "Particles"}}

\* EditorAssetLibrary.does_directory_exist(path)
does_directory_exist(reg, made, path) ==
    path \in made \/ \E q \in DOMAIN reg : Under(q, path)

Init ==
    /\ source_root \in Roots
    /\ \E props \in {P \in SUBSET PropOptions : Cardinality(P) <= MaxProps} :
       \E locked \in LockOptions :
          world = [locked |-> locked,
                   blueprints |->
                     [bp \in {BP1, BP2, BP3} |->
                        IF bp = BP1 THEN Blueprint(props)
                        ELSE IF bp = BP2 THEN Blueprint(FixedProps)
                        ELSE [generated_class |-> FALSE, cdo |-> FALSE,
                              props |-> {Prop("Open", "world", PathName(L3))}]]]
    /\ \E n \in 0..MaxBlueprints : \E missing \in MissingOptions : \E pre \in PreExisting :
          registry = [o \in ((Objects \ {BP1, BP2, BP3, missing}) \cup pre
                             \cup {FolderBlueprints[k] : k \in 1..n}) |-> ObjClass(o)]
    /\ madeDirs = {}
    /\ loaded = {}
    /\ saves = 0
    /\ collected = [k \in Categories |-> {}]
    /\ pc = "start"
    /\ cat = 0
    /\ pending = {}
    /\ moved = 0
    /\ calls = <<>>
    /\ result = None
    /\ pure = [op |-> "run"]

\* lines 19-21: the root is not under /Game
RunReject ==
    /\ pc = "start"
    /\ ~StartsWith(source_root, "/Game")
    /\ result' = 0
    /\ pc' = "done"
    /\ UNCHANGED <<source_root, world, registry, madeDirs, loaded, saves, collected,
                   cat, pending, moved, calls, pure>>

\* RunCollect without the test of the root
RunCollectUnchecked ==
    /\ pc = "start"
    /\ collected' = collect_all_from_folder(registry, world.blueprints, source_root)
    /\ loaded' = collected'["levels"]
    /\ pc' = "collected"
    /\ UNCHANGED <<source_root, world, registry, madeDirs, saves,
                   cat, pending, moved, calls, result, pure>>

\* lines 23-30: collect_all_from_folder
RunCollect ==
    /\ pc = "start"
    /\ StartsWith(source_root, "/Game")
    /\ collected' = collect_all_from_folder(registry, world.blueprints, source_root)
    /\ loaded' = collected'["levels"]
    /\ pc' = "collected"
    /\ UNCHANGED <<source_root, world, registry, madeDirs, saves,
                   cat, pending, moved, calls, result, pure>>

\* lines 32-34: nothing to organize
RunNoBlueprint ==
    /\ pc = "collected"
    /\ Cardinality(collected["blueprints"]) = 0
    /\ result' = 0
    /\ pc' = "done"
    /\ UNCHANGED <<source_root, world, registry, madeDirs, loaded, saves, collected,
                   cat, pending, moved, calls, pure>>

\* lines 36-54: the destination folders are made, the first loop begins
RunEnsureDirs ==
    /\ pc = "collected"
    /\ Cardinality(collected["blueprints"]) # 0
    /\ madeDirs' = madeDirs \cup
          {d \in DstFolders(source_root) : ~does_directory_exist(registry, madeDirs, d)}
    /\ moved' = 0
    /\ cat' = 1
    /\ pending' = collected[CatOrder[1]]
    /\ pc' = "move"
    /\ UNCHANGED <<source_root, world, registry, loaded, saves, collected,
                   calls, result, pure>>

\* one pass of a for loop: _move_asset on the next path of the category
RunMove ==
    /\ pc = "move"
    /\ \E path \in pending :
          \E dst \in {DstOf(source_root, CatOrder[cat])} :
          \E m \in {_move_asset(registry, path, dst, SplitDot0(path) \notin world.locked)} :
             /\ registry' = m.reg
             /\ saves' = saves + m.saved
             /\ moved' = IF m.ret # None THEN moved + 1 ELSE moved
             /\ calls' = Append(calls, [path |-> path, dst |-> dst, cat |-> CatOrder[cat],
                                        renamed |-> m.renamed, new_name |-> m.new_name,
                                        clash |-> m.clash, ok |-> m.ok, ret |-> m.ret])
             /\ pending' = pending \ {path}
    /\ UNCHANGED <<source_root, world, madeDirs, loaded, collected, pc, cat, result, pure>>

\* a for loop is over: the next category's begins
RunNextCategory ==
    /\ pc = "move"
    /\ pending = {}
    /\ cat < Len(CatOrder)
    /\ cat' = cat + 1
    /\ pending' = collected[CatOrder[cat + 1]]
    /\ UNCHANGED <<source_root, world, registry, madeDirs, loaded, saves, collected,
                   pc, moved, calls, result, pure>>

\* lines 94-95
RunReturn ==
    /\ pc = "move"
    /\ pending = {}
    /\ cat = Len(CatOrder)
    /\ result' = moved
    /\ pc' = "done"
    /\ UNCHANGED <<source_root, world, registry, madeDirs, loaded, saves, collected,
                   cat, pending, moved, calls, pure>>

Next ==
    \/ RunReject
    \/ RunCollect
    \/ RunNoBlueprint
    \/ RunEnsureDirs
    \/ RunMove
    \/ RunNextCategory
    \/ RunReturn

Spec == Init /\ [][Next]_vars

----------------------------------------------------------------------------
(* The naming functions on their own: every input within the bounds *)

EmptyReg == [p \in {} |-> "World"]

\* run is not executing
RunIdle ==
    /\ source_root = ""
    /\ world = <<>>
    /\ registry = EmptyReg
    /\ madeDirs = {}
    /\ loaded = {}
    /\ saves = 0
    /\ collected = <<>>
    /\ pc = "idle"
    /\ cat = 0
    /\ pending = {}
    /\ moved = 0
    /\ calls = <<>>
    /\ result = None

runVars == <<source_root, world, registry, madeDirs, loaded, saves, collected,
             pc, cat, pending, moved, calls, result>>

MaxNameLen == 4

NameAlphabet == {"M", "I", "S", "T", "_", "a"}

RECURSIVE NamesUpTo(_)
NamesUpTo(n) ==
    IF n = 0 THEN {""}
    ELSE LET shorter == NamesUpTo(n - 1)
         IN shorter \cup {s \o c : s \in shorter, c \in NameAlphabet}

AssetNames == NamesUpTo(MaxNameLen) \ {""}

InitPrefix ==
    /\ RunIdle
    /\ pure \in [op : {"get_asset_name"}, cls : Classes, asset_name : AssetNames,
                 out : {None}, again : {None}]

\* _get_asset_name(ad), and once more on an asset of the same type bearing the result
CallGetAssetName ==
    /\ pure.op = "get_asset_name"
    /\ pure.out = None
    /\ LET n == _get_asset_name(pure.cls, pure.asset_name)
       IN pure' = [pure EXCEPT !.out = n, !.again = _get_asset_name(pure.cls, n)]
    /\ UNCHANGED runVars

NextPrefix == CallGetAssetName

SpecPrefix == InitPrefix /\ [][NextPrefix]_vars

MaxChain == 4

LongChain == 999

DstFolder == "/Game/A/Textures"

OtherFolder == "/Game/B"

DesiredNames == {"Rock", "T_Rock", "Rock_002"}

\* desired_name with the suffix number k
Suffixed(desired, k) == desired \o "_" \o Format03d(k)

\* the base name and its suffixed variants up to n: n existing names (n >= 1)
Chain(desired, n) ==
    {DstFolder \o "/" \o desired} \cup {DstFolder \o "/" \o Suffixed(desired, k) : k \in 2..n}

\* names around the desired one, at the destination and elsewhere
Nearby(desired) ==
    {DstFolder \o "/" \o desired, OtherFolder \o "/" \o desired, DstFolder \o "/Other"}
    \cup {DstFolder \o "/" \o Suffixed(desired, k) : k \in 1..MaxChain}

\* the assets that exist: those listed one by one, and a chain of the first
\* `chain` names of the desired one (0: no chain)
Listings(desired) ==
    [names : SUBSET Nearby(desired), chain : {0}]
    \cup (IF desired = "Rock" THEN [names : {{}}, chain : {LongChain - 1, LongChain}]
          ELSE {})

ExistingPaths(listing, desired) ==
    listing.names \cup (IF listing.chain = 0 THEN {} ELSE Chain(desired, listing.chain))

\* the registry the call runs against
Existing == [p \in ExistingPaths(pure.listing, pure.desired) |-> "Texture2D"]

InitUnique ==
    /\ RunIdle
    /\ \E d \in DesiredNames : \E l \in Listings(d) : \E dst \in {DstFolder, OtherFolder} :
       \E f \in {"_unique_name_in", "_unique_move_path"} :
          pure = [op |-> f, dst |-> dst, desired |-> d, listing |-> l,
                  name |-> d, i |-> 1, done |-> FALSE, out |-> None]

\* a pass of the loop of _unique_name_in: return the name, or try the next suffix
UniqueNameInPass ==
    /\ pure.op = "_unique_name_in"
    /\ ~pure.done
    /\ \E s \in {UniqueNameStep(Existing, pure.dst, pure.desired, pure.name, pure.i)} :
          pure' = [pure EXCEPT !.name = s.name, !.i = s.i, !.done = s.done, !.out = s.value]
    /\ UNCHANGED runVars

\* a pass of the loop of _unique_move_path
UniqueMovePathPass ==
    /\ pure.op = "_unique_move_path"
    /\ ~pure.done
    /\ \E s \in {UniqueMovePathStep(Existing, pure.dst, pure.desired, pure.name, pure.i)} :
          pure' = [pure EXCEPT !.name = s.name, !.i = s.i, !.done = s.done, !.out = s.value]
    /\ UNCHANGED runVars

NextUnique == UniqueNameInPass \/ UniqueMovePathPass

SpecUnique == InitUnique /\ [][NextUnique]_vars

----------------------------------------------------------------------------
(* Properties *)

EnginePath(p) == Len(p) >= 7 /\ SubSeq(p, 1, 7) \in {"/Engine", "/Script"}

ValidRoot == Len(source_root) >= 5 /\ SubSeq(source_root, 1, 5) = "/Game"

\* the position of the call made for path, 0 if none was made
CallIndex(path) ==
    IF \E i \in 1..Len(calls) : calls[i].path = path
    THEN CHOOSE i \in 1..Len(calls) : calls[i].path = path
    ELSE 0

ClaimedOrder == <<"textures", "materials", "static_meshes", "skeletal_meshes",
                  "sounds", "particles", "levels", "blueprints">>

\* the place in the claimed order of the category that path was collected in
Rank(path) == CHOOSE k \in 1..Len(ClaimedOrder) : path \in collected[ClaimedOrder[k]]

ChainY == "/Game/Tex/Rock.Rock"
ChainX == "/Game/Mats/Rock.Rock"
ChainM == "/Game/Meshes/Rock.Rock"
ChainLevel == "/Game/Maps/L1"
ChainBlueprint == "/Game/A/BP1.BP1"

ChainMoved == \A p \in {ChainY, ChainX, ChainM, ChainLevel, ChainBlueprint} : CallIndex(p) > 0

\* C1: the mover is called category by category in the order textures, materials,
\* static meshes, skeletal meshes, sounds, particles, levels, blueprints: a call for
\* a path of an earlier category precedes every call for a path of a later one, and
\* texture Y, material X, mesh M, the Level and the Blueprint are moved in that order.
C1_MoveOrder ==
    /\ \A i \in 1..Len(calls) : ClaimedOrder[Rank(calls[i].path)] = calls[i].cat
    /\ \A i \in 1..(Len(calls) - 1) : Rank(calls[i].path) <= Rank(calls[i + 1].path)
    /\ ChainMoved =>
          /\ CallIndex(ChainY) < CallIndex(ChainX)
          /\ CallIndex(ChainX) < CallIndex(ChainM)
          /\ CallIndex(ChainM) < CallIndex(ChainLevel)
          /\ CallIndex(ChainLevel) < CallIndex(ChainBlueprint)

C1_Witness ==
    /\ pc = "done"
    /\ ChainMoved
    /\ \E i \in 1..Len(calls) : calls[i].cat = "sounds"

\* C3 (as claimed): a successful _move_asset returns the destination folder joined
\* with the name passed to the rename tool; it returns None when the asset is
\* missing, is an engine asset, or the rename reports failure.
C3_ReturnsNewPath ==
    \A i \in 1..Len(calls) :
        IF calls[i].renamed /\ calls[i].ok
        THEN calls[i].ret = calls[i].dst \o "/" \o calls[i].new_name
        ELSE calls[i].ret = None

\* C4: no path starting with /Engine or /Script is in any collected category, is
\* passed to the mover, or reaches the rename tool.
C4_NoEnginePath ==
    /\ \A k \in DOMAIN collected : \A p \in collected[k] : ~EnginePath(p)
    /\ \A i \in 1..Len(calls) : ~EnginePath(calls[i].path)

C4_Witness ==
    /\ pc = "done"
    /\ \E p \in world.blueprints[BP1].props : p.name = "Entry"
    /\ \E p \in world.blueprints[BP1].props : p.name = "Arena"
    /\ BP1 \in DOMAIN registry \/ "/Game/A/Blueprints/BP1" \in DOMAIN registry
    /\ \E i \in 1..Len(calls) : calls[i].path = ChainY /\ calls[i].renamed

\* C6: with a root that does not begin with /Game, run returns 0 and nothing
\* happens: no collection, no level load, no directory, no mover or rename call,
\* no save.
C6_InvalidRoot ==
    ~ValidRoot =>
        /\ pc \in {"start", "done"}
        /\ pc = "done" => result = 0
        /\ \A k \in DOMAIN collected : collected[k] = {}
        /\ loaded = {}
        /\ madeDirs = {}
        /\ calls = <<>>
        /\ saves = 0

C6_Witness == ~ValidRoot /\ pc = "done" /\ result = 0

NoBlueprintInFolder ==
    \A p \in DOMAIN registry :
        registry[p] = "Blueprint" => ~StartsWith(p, source_root \o "/")

\* C7: for a folder under /Game with no Blueprint in it, every collected category
\* is empty, run calls the mover and the rename tool not once, and returns 0.
C7_NoBlueprint ==
    (ValidRoot /\ NoBlueprintInFolder) =>
        /\ \A k \in DOMAIN collected : collected[k] = {}
        /\ loaded = {}
        /\ calls = <<>>
        /\ pc = "done" => result = 0

C7_Witness ==
    /\ ValidRoot /\ NoBlueprintInFolder /\ pc = "done" /\ result = 0
    /\ \E p \in DOMAIN registry : registry[p] = "Blueprint"

MovedPaths == UNION {collected[ClaimedOrder[k]] : k \in 1..Len(ClaimedOrder)}

Successes == {i \in 1..Len(calls) : calls[i].renamed /\ calls[i].ok}

\* C8: run calls the mover exactly once for every collected path of every moved
\* category, whatever the earlier calls came to, and returns the number of calls in
\* which the rename succeeded; an asset once moved stays moved.
C8_CountsSuccesses ==
    /\ \A i, j \in 1..Len(calls) : calls[i].path = calls[j].path => i = j
    /\ \A i \in 1..Len(calls) : calls[i].path \in MovedPaths
    /\ pc = "move" => moved = Cardinality(Successes)
    /\ (pc = "done" /\ ValidRoot /\ collected["blueprints"] # {}) =>
          /\ \A p \in MovedPaths : CallIndex(p) > 0
          /\ Len(calls) = Cardinality(MovedPaths)
          /\ result = Cardinality(Successes)
    /\ \A i \in Successes : SplitDot0(calls[i].path) \notin DOMAIN registry

C8_Witness ==
    /\ pc = "done"
    /\ \E i, j, k \in 1..Len(calls) :
          /\ i < k /\ j < k
          /\ ~calls[i].renamed
          /\ calls[j].renamed /\ ~calls[j].ok
          /\ calls[k].renamed /\ calls[k].ok
    /\ result >= 2

\* a property of a Blueprint's default object that refers to a Level outside the
\* engine: a World object, or a soft path whose target is a Level asset
RefersToLevel(prop) ==
    /\ SubSeq(prop.name, 1, 1) # "_"
    /\ ~EnginePath(prop.target)
    /\ \/ prop.kind = "world"
       \/ /\ prop.kind = "soft"
          /\ SplitDot0(prop.target) \in DOMAIN registry
          /\ registry[SplitDot0(prop.target)] = "World"

\* C9 (as claimed): every property of the default object of a Blueprint in the
\* folder that refers to a Level outside the engine, by object or by soft path,
\* whatever the soft path's text, puts that Level's package path in 'levels'.
C9_EveryLevelReference ==
    (pc = "collected") =>
        \A bp \in DOMAIN world.blueprints :
            (bp \in DOMAIN registry /\ StartsWith(bp, source_root \o "/")
             /\ world.blueprints[bp].generated_class /\ world.blueprints[bp].cdo) =>
                \A prop \in world.blueprints[bp].props :
                    RefersToLevel(prop) => SplitDot0(prop.target) \in collected["levels"]

\* C10: the rename tool is never given a (folder, name) at which an asset exists at
\* the time of the call, and no two assets moved in a run end up at one path.
C10_NoCollision ==
    /\ \A i \in 1..Len(calls) : calls[i].renamed => ~calls[i].clash
    /\ \A i, j \in Successes :
          (calls[i].dst = calls[j].dst /\ calls[i].new_name = calls[j].new_name) => i = j
    /\ \A i \in Successes : (calls[i].dst \o "/" \o calls[i].new_name) \in DOMAIN registry

C10_Witness ==
    /\ pc = "done"
    /\ \E i, j \in Successes :
          /\ calls[i].path = "/Game/Tex/Rock.Rock"
          /\ calls[j].path = "/Game/Tex2/T_Rock.T_Rock"
          /\ calls[i].new_name # calls[j].new_name
          /\ {calls[i].new_name, calls[j].new_name} \subseteq
                {"T_Rock", "T_Rock_002", "T_Rock_003"}

----------------------------------------------------------------------------
(* Properties of the naming functions *)

IsDigits(s) == \A k \in 1..Len(s) : Find("0123456789", SubSeq(s, k, k)) # -1

RECURSIVE DecimalValue(_)
DecimalValue(s) ==
    IF Len(s) = 0 THEN 0
    ELSE 10 * DecimalValue(SubSeq(s, 1, Len(s) - 1))
         + Find("0123456789", SubSeq(s, Len(s), Len(s)))

Taken(ex, n) == (pure.dst \o "/" \o n) \in ex

\* the name the call settled on
ChosenName == IF pure.op = "_unique_name_in" THEN pure.out ELSE pure.name

\* the text after "<desired>_" in the chosen name
ChosenSuffix == SubSeq(ChosenName, Len(pure.desired) + 2, Len(ChosenName))

\* the chosen name is the desired one, an underscore and the number k written in
\* decimal, the k being the first from 2 on whose name is free among ex
NextSuffix(ex, k) ==
    /\ ChosenName = pure.desired \o "_" \o ChosenSuffix
    /\ IsDigits(ChosenSuffix)
    /\ DecimalValue(ChosenSuffix) = k
    /\ \A j \in 2..(k - 1) : \E sfx \in {Format03d(j)} : Taken(ex, pure.desired \o "_" \o sfx)

UniqueResultCommon(ex) ==
    /\ pure.op = "_unique_move_path" => pure.out = pure.dst \o "/" \o ChosenName
    /\ ~Taken(ex, ChosenName)
    /\ ~Taken(ex, pure.desired) => ChosenName = pure.desired
    /\ Taken(ex, pure.desired) => \E k \in 2..(Cardinality(ex) + 1) : NextSuffix(ex, k)
    /\ (pure.listing.chain > 0 /\ pure.dst = DstFolder) =>
          NextSuffix(ex, pure.listing.chain + 1)

\* C2 (as claimed): the loop ends with a name free at the destination: the desired
\* name when it is free, otherwise the desired name, '_' and a zero-padded 3-digit
\* number, the next one after the N names that exist.
C2_ThreeDigitSuffix ==
    pure.done =>
        \E ex \in {DOMAIN Existing} :
            /\ UniqueResultCommon(ex)
            /\ Taken(ex, pure.desired) => Len(ChosenSuffix) = 3

\* C2 (amended): as above, the number being zero-padded to at least 3 digits: 3
\* digits up to 999, and as many as the number has from 1000 on.
C2_PaddedSuffix ==
    /\ pure.i <= Cardinality(pure.listing.names) + pure.listing.chain + 1
    /\ pure.done =>
        \E ex \in {DOMAIN Existing} :
            /\ UniqueResultCommon(ex)
            /\ Taken(ex, pure.desired) =>
                  /\ Len(ChosenSuffix) >= 3
                  /\ Len(ChosenSuffix) > 3 => SubSeq(ChosenSuffix, 1, 1) # "0"

C2_Witness ==
    /\ pure.done
    /\ pure.op = "_unique_name_in"
    /\ pure.listing.names = Chain(pure.desired, 3) \cup {"/Game/B/Rock"}
    /\ pure.out = "Rock_004"

ClaimedPrefix(cls) ==
    CASE cls = "Material" -> "M_"
      [] cls = "MaterialInstanceConstant" -> "MI_"
      [] cls = "StaticMesh" -> "SM_"
      [] cls \in {"Texture", "Texture2D"} -> "T_"
      [] OTHER -> ""

HasPrefix(name, prefix) == Len(name) >= Len(prefix) /\ SubSeq(name, 1, Len(prefix)) = prefix

\* C5: a name that starts with its type's prefix (M_, MI_, SM_, T_, none for other
\* types) is returned as it is, any other name with the prefix put before it once,
\* and a normalized name normalizes to itself.
C5_PrefixIdempotent ==
    pure.out # None =>
        /\ HasPrefix(pure.asset_name, ClaimedPrefix(pure.cls)) => pure.out = pure.asset_name
        /\ ~HasPrefix(pure.asset_name, ClaimedPrefix(pure.cls)) =>
              pure.out = ClaimedPrefix(pure.cls) \o pure.asset_name
        /\ pure.again = pure.out

C5_Witness ==
    /\ pure.out # None
    /\ pure.cls = "Texture2D"
    /\ pure.asset_name = "aT_"
    /\ pure.out = "T_aT_"
    /\ pure.again = "T_aT_"

====
